---------------------------- MODULE Spec2Model ----------------------------
(***************************************************************************)
(* A model of the noise library's gradient-noise kernel (Perlin) and its   *)
(* multi-octave fractal combinator (HybridMulti).                          *)
(*                                                                         *)
(* f64 values are modelled as binary fixed-point numbers: the integer n    *)
(* stands for n / 2^FracBits, and every multiplication rounds its result   *)
(* to the nearest representable value, as an f64 multiplication does.      *)
(* Vectors are 0-indexed in the source and 1-indexed here; Index(v, i)     *)
(* reads v[i] of the source.                                               *)
(***************************************************************************)
EXTENDS Integers, Sequences, FiniteSets, TLC

VARIABLES hm, perlins, call, seen

vars == <<hm, perlins, call, seen>>

---------------------------------------------------------------------------
(* Bounds of the model.                                                    *)

\* fractional bits of the fixed-point stand-in for f64
FracBits == 8
\* seeds passed to set_seed are 0..MaxSeed
MaxSeed == 1
\* get is evaluated on a HybridMulti of at most this many octaves
MaxGetOctaves == 6
\* set_octaves is called with every n in 0..SmallOctaves
SmallOctaves == 3
\* set_octaves is called with n up to MAX_OCTAVES + OctavesOver
OctavesOver == 2

---------------------------------------------------------------------------
(* Constants of the program.                                               *)

HybridMulti_DEFAULT_SEED == 0
HybridMulti_DEFAULT_OCTAVES == 6
HybridMulti_MAX_OCTAVES == 32
Perlin_DEFAULT_SEED == 0
TABLE_SIZE == 256

---------------------------------------------------------------------------
(* f64 arithmetic.                                                         *)

Scale == 2 ^ FracBits

\* the f64 nearest to n / d
F64(n, d) == (2 * n * Scale + d) \div (2 * d)

One == Scale

Mul(a, b) == (2 * a * b + Scale) \div (2 * Scale)

Floor(a) == (a \div Scale) * Scale

ToIsize(a) == a \div Scale

FMax(a, b) == IF a >= b THEN a ELSE b

RECURSIVE Powi(_, _)
Powi(a, n) == IF n = 0 THEN One ELSE Mul(Powi(a, n - 1), a)

clamp(val, min, max) == IF val < min THEN min ELSE IF val > max THEN max ELSE val

\* math::mul2 / mul3 / mul4: every component times a scalar
mulN(point, s) == [i \in DOMAIN point |-> Mul(point[i], s)]

\* math::interp::s_curve5: 6t^5 - 15t^4 + 10t^3
s_curve5(t) == Mul(Mul(Mul(t, t), t), Mul(t, Mul(t, 6 * One) - 15 * One) + 10 * One)

dot4(a, b) == Mul(a[1], b[1]) + Mul(a[2], b[2]) + Mul(a[3], b[3]) + Mul(a[4], b[4])

---------------------------------------------------------------------------
(* The permutation table.                                                  *)

\* the seeded pseudo-random sequence driving the shuffle
RngModulus == 65537
RngNext(x) == (x * 75 + 74) % RngModulus

\* the shuffle's steps for positions i, i - 1, ..., lo: position i swaps with a
\* drawn position j <= i
RECURSIVE ShuffleRun(_, _, _)
ShuffleRun(st, i, lo) ==
    IF i < lo THEN st
    ELSE LET r == RngNext(st.rng)
             j == r % (i + 1)
         IN  IF j = i
             THEN ShuffleRun([values |-> st.values, rng |-> r], i - 1, lo)
             ELSE ShuffleRun([values |-> [st.values EXCEPT ![i] = st.values[j],
                                                           ![j] = st.values[i]],
                              rng |-> r], i - 1, lo)

\* from the last position down to the second, sixteen positions at a time
RECURSIVE Shuffle(_, _)
Shuffle(st, i) ==
    IF i < 1 THEN st.values
    ELSE LET lo == IF i - 15 < 1 THEN 1 ELSE i - 15
         IN  Shuffle(ShuffleRun(st, i, lo), lo - 1)

\* every seed a Perlin instance of the model can carry
TableSeeds == 0..(MaxSeed + HybridMulti_MAX_OCTAVES + OctavesOver)

PermTables == [s \in TableSeeds |->
                 Shuffle([values |-> [i \in 0..(TABLE_SIZE - 1) |-> i],
                          rng |-> s % RngModulus], TABLE_SIZE - 1)]

PermutationTable_new(seed) == PermTables[seed]

get1(t, x) == t[x % TABLE_SIZE]
get2(t, pos) == t[(get1(t, pos[1]) + pos[2]) % TABLE_SIZE]
get3(t, pos) == t[(get2(t, pos) + pos[3]) % TABLE_SIZE]
get4(t, pos) == t[(get3(t, pos) + pos[4]) % TABLE_SIZE]

---------------------------------------------------------------------------
(* The 4-D gradient table: 32 directions, one zero component and three of  *)
(* magnitude one.                                                          *)

gradient_get4(index) ==
    LET k == index % 32
        z == (k \div 8) + 1
        b == k % 8
        sgn(bit) == IF (b \div bit) % 2 = 0 THEN One ELSE -One
        s == <<sgn(1), sgn(2), sgn(4)>>
    IN  [i \in 1..4 |-> IF i = z THEN 0 ELSE IF i < z THEN s[i] ELSE s[i - 1]]

---------------------------------------------------------------------------
(* Perlin.                                                                 *)

Perlin_new == [seed |-> Perlin_DEFAULT_SEED,
               perm_table |-> PermutationTable_new(Perlin_DEFAULT_SEED)]

\* a set_seed that builds the new table and keeps the old seed
Perlin_set_seed_keeps_seed(self, seed) ==
    IF self.seed = seed THEN self
    ELSE [seed |-> self.seed, perm_table |-> PermutationTable_new(seed)]

Perlin_set_seed(self, seed) ==
    IF self.seed = seed THEN self
    ELSE [seed |-> seed, perm_table |-> PermutationTable_new(seed)]

Perlin_seed(self) == self.seed

gradient_dot_v2(perm, point) ==
    LET x == point[1]
        y == point[2]
    IN  CASE perm % 4 = 0 -> x + y
          [] perm % 4 = 1 -> (-x) + y
          [] perm % 4 = 2 -> x - y
          [] perm % 4 = 3 -> (-x) - y

\* a blend that adds k1 without its weight u
Perlin_blend2_k1_unweighted(a, b, c, d, u, v) ==
    LET k0 == a
        k1 == b - a
        k2 == c - a
        k3 == a + d - b - c
    IN  k0 + k1 + Mul(k2, v) + Mul(Mul(k3, u), v)

\* k0 + k1 * u + k2 * v + k3 * u * v
Perlin_blend2(a, b, c, d, u, v) ==
    LET k0 == a
        k1 == b - a
        k2 == c - a
        k3 == a + d - b - c
    IN  k0 + Mul(k1, u) + Mul(k2, v) + Mul(Mul(k3, u), v)

\* the cell of the point: near corner, near and far distance per axis
Cell(point) ==
    LET floored == [i \in DOMAIN point |-> Floor(point[i])]
        near_distance == [i \in DOMAIN point |-> point[i] - floored[i]]
    IN  [near_corner |-> [i \in DOMAIN point |-> ToIsize(floored[i])],
         far_corner |-> [i \in DOMAIN point |-> ToIsize(floored[i]) + 1],
         near_distance |-> near_distance,
         far_distance |-> [i \in DOMAIN point |-> near_distance[i] - One]]

\* the corner and the offset chosen per axis by far (0: near, 1: far)
Corner(cell, far) ==
    [i \in DOMAIN far |-> IF far[i] = 1 THEN cell.far_corner[i] ELSE cell.near_corner[i]]
Offset(cell, far) ==
    [i \in DOMAIN far |-> IF far[i] = 1 THEN cell.far_distance[i] ELSE cell.near_distance[i]]

Perlin_corner2(self, cell, far) ==
    gradient_dot_v2(get2(self.perm_table, Corner(cell, far)), Offset(cell, far))

Perlin_get2(self, point) ==
    LET cell == Cell(point)
        u == s_curve5(cell.near_distance[1])
        v == s_curve5(cell.near_distance[2])
        a == Perlin_corner2(self, cell, <<0, 0>>)
        b == Perlin_corner2(self, cell, <<1, 0>>)
        c == Perlin_corner2(self, cell, <<0, 1>>)
        d == Perlin_corner2(self, cell, <<1, 1>>)
    IN  Perlin_blend2(a, b, c, d, u, v)

gradient_dot_v3(perm, point) ==
    LET x == point[1]
        y == point[2]
        z == point[3]
        p == perm % 16
    IN  CASE p = 0 -> x + y
          [] p = 1 -> (-x) + y
          [] p = 2 -> x - y
          [] p = 3 -> (-x) - y
          [] p = 4 -> x + z
          [] p = 5 -> (-x) + z
          [] p = 6 -> x - z
          [] p = 7 -> (-x) - z
          [] p = 8 -> y + z
          [] p = 9 -> (-y) + z
          [] p = 10 -> y - z
          [] p = 11 -> (-y) - z
          [] p = 12 -> x + y
          [] p = 13 -> (-x) + y
          [] p = 14 -> (-y) + z
          [] p = 15 -> (-y) - z

Perlin_blend3(a, b, c, d, e, f, g, h, u, v, w) ==
    LET k0 == a
        k1 == b - a
        k2 == c - a
        k3 == e - a
        k4 == a + d - b - c
        k5 == a + f - b - e
        k6 == a + g - c - e
        k7 == b + c + e + h - a - d - f - g
    IN  k0 + Mul(k1, u) + Mul(k2, v) + Mul(k3, w) + Mul(Mul(k4, u), v)
           + Mul(Mul(k5, u), w) + Mul(Mul(k6, v), w) + Mul(Mul(Mul(k7, u), v), w)

Perlin_corner3(self, cell, far) ==
    gradient_dot_v3(get3(self.perm_table, Corner(cell, far)), Offset(cell, far))

Perlin_get3(self, point) ==
    LET cell == Cell(point)
        u == s_curve5(cell.near_distance[1])
        v == s_curve5(cell.near_distance[2])
        w == s_curve5(cell.near_distance[3])
        a == Perlin_corner3(self, cell, <<0, 0, 0>>)
        b == Perlin_corner3(self, cell, <<1, 0, 0>>)
        c == Perlin_corner3(self, cell, <<0, 1, 0>>)
        d == Perlin_corner3(self, cell, <<1, 1, 0>>)
        e == Perlin_corner3(self, cell, <<0, 0, 1>>)
        f == Perlin_corner3(self, cell, <<1, 0, 1>>)
        g == Perlin_corner3(self, cell, <<0, 1, 1>>)
        h == Perlin_corner3(self, cell, <<1, 1, 1>>)
    IN  Perlin_blend3(a, b, c, d, e, f, g, h, u, v, w)

surflet(perm_table, corner, distance) ==
    LET attn == One - dot4(distance, distance)
    IN  IF attn > 0
        THEN Mul(Powi(attn, 4), dot4(distance, gradient_get4(get4(perm_table, corner))))
        ELSE 0

\* the constant that scales the 4-D sum to -1..1
Perlin_SCALE4 == F64(44244, 10000)

Perlin_get4(self, point) ==
    LET cell == Cell(point)
        f(far) == surflet(self.perm_table, Corner(cell, far), Offset(cell, far))
        sum == f(<<0, 0, 0, 0>>) + f(<<1, 0, 0, 0>>) + f(<<0, 1, 0, 0>>) + f(<<1, 1, 0, 0>>)
             + f(<<0, 0, 1, 0>>) + f(<<1, 0, 1, 0>>) + f(<<0, 1, 1, 0>>) + f(<<1, 1, 1, 0>>)
             + f(<<0, 0, 0, 1>>) + f(<<1, 0, 0, 1>>) + f(<<0, 1, 0, 1>>) + f(<<1, 1, 0, 1>>)
             + f(<<0, 0, 1, 1>>) + f(<<1, 0, 1, 1>>) + f(<<0, 1, 1, 1>>) + f(<<1, 1, 1, 1>>)
    IN  clamp(Mul(sum, Perlin_SCALE4), -One, One)

\* NoiseFn::get of a Perlin, by the dimension of the point
Perlin_get(self, point) ==
    CASE Len(point) = 2 -> Perlin_get2(self, point)
      [] Len(point) = 3 -> Perlin_get3(self, point)
      [] Len(point) = 4 -> Perlin_get4(self, point)

---------------------------------------------------------------------------
(* HybridMulti.                                                            *)

HybridMulti_DEFAULT_FREQUENCY == F64(2, 1)
\* PI * 2.0 / 3.0
HybridMulti_DEFAULT_LACUNARITY == F64(20944, 10000)
HybridMulti_DEFAULT_PERSISTENCE == F64(1, 4)

\* fractals::build_sources: octaves sources, source x seeded seed + x
build_sources(seed, octaves) ==
    [x \in 1..octaves |-> Perlin_set_seed(Perlin_new, seed + (x - 1))]

HybridMulti_new ==
    [seed |-> HybridMulti_DEFAULT_SEED,
     octaves |-> HybridMulti_DEFAULT_OCTAVES,
     frequency |-> HybridMulti_DEFAULT_FREQUENCY,
     lacunarity |-> HybridMulti_DEFAULT_LACUNARITY,
     persistence |-> HybridMulti_DEFAULT_PERSISTENCE,
     sources |-> build_sources(HybridMulti_DEFAULT_SEED, HybridMulti_DEFAULT_OCTAVES)]

\* a set_octaves that builds the sources from the requested count, unclamped
HybridMulti_set_octaves_build_unclamped(self, n) ==
    IF self.octaves = n THEN self
    ELSE [self EXCEPT !.octaves = clamp(n, 1, HybridMulti_MAX_OCTAVES),
                      !.sources = build_sources(self.seed, n)]

\* a set_octaves that does not clamp
HybridMulti_set_octaves_no_clamp(self, n) ==
    IF self.octaves = n THEN self
    ELSE [self EXCEPT !.octaves = n, !.sources = build_sources(self.seed, n)]

\* a set_octaves that rebuilds the sources from the default seed
HybridMulti_set_octaves_default_seed(self, n) ==
    IF self.octaves = n THEN self
    ELSE LET octaves == clamp(n, 1, HybridMulti_MAX_OCTAVES)
         IN  [self EXCEPT !.octaves = octaves,
                          !.sources = build_sources(HybridMulti_DEFAULT_SEED, octaves)]

\* a set_octaves that rebuilds as many sources as the instance had
HybridMulti_set_octaves_build_old(self, n) ==
    IF self.octaves = n THEN self
    ELSE [self EXCEPT !.octaves = clamp(n, 1, HybridMulti_MAX_OCTAVES),
                      !.sources = build_sources(self.seed, self.octaves)]

HybridMulti_set_octaves(self, n) ==
    IF self.octaves = n THEN self
    ELSE LET octaves == clamp(n, 1, HybridMulti_MAX_OCTAVES)
         IN  [self EXCEPT !.octaves = octaves,
                          !.sources = build_sources(self.seed, octaves)]

HybridMulti_set_frequency(self, frequency) == [self EXCEPT !.frequency = frequency]

\* a set_lacunarity that writes the frequency field
HybridMulti_set_lacunarity_writes_frequency(self, lacunarity) ==
    [self EXCEPT !.frequency = lacunarity]

HybridMulti_set_lacunarity(self, lacunarity) == [self EXCEPT !.lacunarity = lacunarity]

HybridMulti_set_persistence(self, persistence) == [self EXCEPT !.persistence = persistence]

\* a set_seed that rebuilds the default number of sources
HybridMulti_set_seed_default_octaves(self, seed) ==
    IF self.seed = seed THEN self
    ELSE [self EXCEPT !.seed = seed,
                      !.sources = build_sources(seed, HybridMulti_DEFAULT_OCTAVES)]

\* a set_seed that stores the seed and keeps the old sources
HybridMulti_set_seed_no_rebuild(self, seed) ==
    IF self.seed = seed THEN self ELSE [self EXCEPT !.seed = seed]

HybridMulti_set_seed(self, seed) ==
    IF self.seed = seed THEN self
    ELSE [self EXCEPT !.seed = seed,
                      !.sources = build_sources(seed, self.octaves)]

HybridMulti_seed(self) == self.seed

\* v[i] of the source; an index at or past the length panics
InBounds(v, i) == 0 <= i /\ i < Len(v)
Index(v, i) == v[i + 1]

\* the indices of sources that get reads: 0, then the loop's 1..octaves
SourcesRead(self) == {0} \cup (1..(self.octaves - 1))

\* the body of `for x in 1..self.octaves`, from x on; st holds the loop's
\* variables and what the evaluation did so far
RECURSIVE HybridMulti_loop(_, _, _)
HybridMulti_loop(self, x, st) ==
    IF x >= self.octaves THEN st
    ELSE IF ~InBounds(self.sources, x)
    THEN [st EXCEPT !.panicked = TRUE, !.reads = @ \cup {x}]
    ELSE LET weight == FMax(st.weight, One)
             point == mulN(st.point, self.lacunarity)
             signal == Mul(Perlin_get(Index(self.sources, x), point),
                           Powi(self.persistence, x))
             result == st.result + Mul(weight, signal)
         IN  HybridMulti_loop(self, x + 1,
                 [point |-> point,
                  result |-> result,
                  weight |-> Mul(weight, signal),
                  reads |-> st.reads \cup {x},
                  panicked |-> FALSE,
                  steps |-> Append(st.steps,
                               [x |-> x, weight_before |-> st.weight, weight |-> weight,
                                signal |-> signal, result |-> result])])

\* a get whose first octave is not scaled by persistence
HybridMulti_get_first_unscaled(self, p) ==
    IF ~InBounds(self.sources, 0)
    THEN [value |-> 0, reads |-> {0}, panicked |-> TRUE, steps |-> <<>>]
    ELSE LET point == mulN(p, self.frequency)
             result == Perlin_get(Index(self.sources, 0), point)
             st == HybridMulti_loop(self, 1,
                       [point |-> point, result |-> result, weight |-> result,
                        reads |-> {0}, panicked |-> FALSE, steps |-> <<>>])
         IN  [value |-> IF st.panicked THEN 0 ELSE Mul(st.result, 3 * One),
              reads |-> st.reads, panicked |-> st.panicked, steps |-> st.steps]

\* NoiseFn::get of a HybridMulti, in the dimension of the point: the value
\* returned, with the source indices read, the loop's iterations, and
\* whether an index was out of bounds (a panic, which returns no value)
HybridMulti_get(self, p) ==
    IF ~InBounds(self.sources, 0)
    THEN [value |-> 0, reads |-> {0}, panicked |-> TRUE, steps |-> <<>>]
    ELSE LET point == mulN(p, self.frequency)
             result == Mul(Perlin_get(Index(self.sources, 0), point), self.persistence)
             st == HybridMulti_loop(self, 1,
                       [point |-> point, result |-> result, weight |-> result,
                        reads |-> {0}, panicked |-> FALSE, steps |-> <<>>])
         IN  [value |-> IF st.panicked THEN 0 ELSE Mul(st.result, 3 * One),
              reads |-> st.reads, panicked |-> st.panicked, steps |-> st.steps]

\* a write of the public field octaves, which no setter performs
HybridMulti_assign_octaves(self, n) == [self EXCEPT !.octaves = n]

---------------------------------------------------------------------------
(* The inputs of the operations.                                           *)

Seeds == 0..MaxSeed

OctaveArgs == (0..SmallOctaves)
              \cup {HybridMulti_DEFAULT_OCTAVES, HybridMulti_MAX_OCTAVES - 1}
              \cup (HybridMulti_MAX_OCTAVES..(HybridMulti_MAX_OCTAVES + OctavesOver))

Frequencies == {HybridMulti_DEFAULT_FREQUENCY, F64(1, 2)}
Lacunarities == {HybridMulti_DEFAULT_LACUNARITY, F64(2, 1)}
Persistences == {HybridMulti_DEFAULT_PERSISTENCE, One}

\* points a HybridMulti is evaluated at
HMPoints2 == {<<F64(1, 4), F64(3, 8)>>, <<F64(-3, 8), F64(9, 8)>>}
HMPoints3 == {<<F64(1, 4), F64(3, 8), F64(-1, 8)>>}
HMPoints4 == {<<F64(1, 4), F64(3, 8), F64(-1, 8), F64(5, 8)>>}

\* points a Perlin is evaluated at: on the lattice and off it
PerlinPoints == {<<One, -2 * One>>, <<F64(-3, 4), F64(5, 4)>>,
                 <<-One, 0, 3 * One>>,
                 <<F64(1, 4), F64(1, 2), F64(-3, 4), F64(1, 2)>>}

Instances == 1..2

---------------------------------------------------------------------------
(* The state: one HybridMulti, two Perlin instances built independently,   *)
(* the last call with what it returned, and per point the first result a   *)
(* Perlin returned there.                                                  *)

NoRet == [value |-> 0, reads |-> {}, panicked |-> FALSE, steps |-> <<>>]

Call(op, inst, arg, point, ret) ==
    [op |-> op, inst |-> inst, arg |-> arg, point |-> point, ret |-> ret]

None == [seed |-> -1, value |-> 0]

Init ==
    /\ hm = HybridMulti_new
    /\ perlins = [i \in Instances |-> Perlin_new]
    /\ call = Call("new", 0, 0, <<>>, NoRet)
    /\ seen = [p \in PerlinPoints |-> None]

SetOctaves(n) ==
    /\ hm' = HybridMulti_set_octaves(hm, n)
    /\ call' = Call("set_octaves", 0, n, <<>>, NoRet)
    /\ UNCHANGED <<perlins, seen>>

SetFrequency(f) ==
    /\ hm' = HybridMulti_set_frequency(hm, f)
    /\ call' = Call("set_frequency", 0, f, <<>>, NoRet)
    /\ UNCHANGED <<perlins, seen>>

SetLacunarity(l) ==
    /\ hm' = HybridMulti_set_lacunarity(hm, l)
    /\ call' = Call("set_lacunarity", 0, l, <<>>, NoRet)
    /\ UNCHANGED <<perlins, seen>>

SetPersistence(p) ==
    /\ hm' = HybridMulti_set_persistence(hm, p)
    /\ call' = Call("set_persistence", 0, p, <<>>, NoRet)
    /\ UNCHANGED <<perlins, seen>>

SetSeed(s) ==
    /\ hm' = HybridMulti_set_seed(hm, s)
    /\ call' = Call("set_seed", 0, s, <<>>, NoRet)
    /\ UNCHANGED <<perlins, seen>>

\* get(&self, point): the instance is read, the value returned
Get(op, p) ==
    /\ hm.octaves <= MaxGetOctaves
    /\ call' = Call(op, 0, 0, p, HybridMulti_get(hm, p))
    /\ UNCHANGED <<hm, perlins, seen>>

Get2(p) == Get("get2", p)
Get3(p) == Get("get3", p)
Get4(p) == Get("get4", p)

PerlinSetSeed(i, s) ==
    /\ perlins' = [perlins EXCEPT ![i] = Perlin_set_seed(perlins[i], s)]
    /\ call' = Call("perlin_set_seed", i, s, <<>>, NoRet)
    /\ UNCHANGED <<hm, seen>>

PerlinGet(i, p) ==
    LET v == Perlin_get(perlins[i], p)
    IN  /\ call' = Call("perlin_get", i, Perlin_seed(perlins[i]), p,
                        [NoRet EXCEPT !.value = v])
        /\ seen' = IF seen[p] = None
                   THEN [seen EXCEPT ![p] = [seed |-> Perlin_seed(perlins[i]), value |-> v]]
                   ELSE seen
        /\ UNCHANGED <<hm, perlins>>

\* the HybridMulti: its builder operations and its evaluation
Next ==
    \/ \E n \in OctaveArgs : SetOctaves(n)
    \/ \E f \in Frequencies : SetFrequency(f)
    \/ \E l \in Lacunarities : SetLacunarity(l)
    \/ \E p \in Persistences : SetPersistence(p)
    \/ \E s \in Seeds : SetSeed(s)
    \/ \E p \in HMPoints2 : Get2(p)
    \/ \E p \in HMPoints3 : Get3(p)
    \/ \E p \in HMPoints4 : Get4(p)

Spec == Init /\ [][Next]_vars

\* the Perlin instances: reseeding and evaluation
NextPerlin ==
    \/ \E i \in Instances, s \in Seeds : PerlinSetSeed(i, s)
    \/ \E i \in Instances, p \in PerlinPoints : PerlinGet(i, p)

SpecPerlin == Init /\ [][NextPerlin]_vars

\* the builder operations of both generators
NextSeedable ==
    \/ \E n \in OctaveArgs : SetOctaves(n)
    \/ \E f \in Frequencies : SetFrequency(f)
    \/ \E l \in Lacunarities : SetLacunarity(l)
    \/ \E p \in Persistences : SetPersistence(p)
    \/ \E s \in Seeds : SetSeed(s)
    \/ \E i \in Instances, s \in Seeds : PerlinSetSeed(i, s)

SpecSeedable == Init /\ [][NextSeedable]_vars

---------------------------------------------------------------------------
(* The claims.                                                             *)

IsGet == call.op \in {"get2", "get3", "get4"}

\* n clamped to [1, 32], written out
Clamped(n) == IF n < 1 THEN 1 ELSE IF n > 32 THEN 32 ELSE n

\* C1: after any sequence of setter calls, with any arguments, the length of
\* sources equals the octaves field.
C1_SourcesLenIsOctaves == Len(hm.sources) = hm.octaves

\* set_octaves was called with more than 32 and the sources were rebuilt
\* under a seed other than the default
C1_Witness ==
    /\ call.op = "set_octaves"
    /\ call.arg > HybridMulti_MAX_OCTAVES
    /\ hm.seed # HybridMulti_DEFAULT_SEED
    /\ Len(hm.sources) = HybridMulti_MAX_OCTAVES

\* C2: octaves always lies in [1, 32]; set_octaves(n) stores 1 when n < 1,
\* 32 when n > 32, and n otherwise.
C2_OctavesClamped ==
    /\ hm.octaves \in 1..32
    /\ call.op = "set_octaves" => hm.octaves = Clamped(call.arg)

\* set_octaves(0) stored 1
C2_Witness == call.op = "set_octaves" /\ call.arg = 0 /\ hm.octaves = 1

\* C3: set_octaves(n) returns the instance unchanged when n is the current
\* octaves; otherwise octaves becomes n clamped to [1, 32], sources are
\* rebuilt from the same seed, and seed, frequency, lacunarity and
\* persistence stay as they were.
C3_SetOctavesEffect ==
    [][call'.op = "set_octaves" =>
         IF call'.arg = hm.octaves
         THEN hm' = hm
         ELSE /\ hm'.octaves = Clamped(call'.arg)
              /\ hm'.sources = build_sources(hm.seed, Clamped(call'.arg))
              /\ hm'.seed = hm.seed
              /\ hm'.frequency = hm.frequency
              /\ hm'.lacunarity = hm.lacunarity
              /\ hm'.persistence = hm.persistence]_vars

\* set_octaves clamped its argument on an instance whose seed and scalar
\* parameters all differ from the defaults
C3_Witness ==
    /\ call.op = "set_octaves"
    /\ call.arg = HybridMulti_MAX_OCTAVES + 1
    /\ hm.octaves = HybridMulti_MAX_OCTAVES
    /\ hm.seed # HybridMulti_DEFAULT_SEED
    /\ hm.frequency # HybridMulti_DEFAULT_FREQUENCY
    /\ hm.lacunarity # HybridMulti_DEFAULT_LACUNARITY
    /\ hm.persistence # HybridMulti_DEFAULT_PERSISTENCE

\* C4: set_seed(s) with s the current seed returns the same instance (Perlin:
\* the same table; HybridMulti: the same sources and parameters); with
\* another s it returns an instance of seed s whose table or sources are
\* built from s, HybridMulti's octaves, frequency, lacunarity and
\* persistence unchanged.
C4_SetSeedEffect ==
    [][/\ call'.op = "set_seed" =>
            IF call'.arg = HybridMulti_seed(hm)
            THEN hm' = hm
            ELSE /\ HybridMulti_seed(hm') = call'.arg
                 /\ hm'.sources = build_sources(call'.arg, hm.octaves)
                 /\ hm'.octaves = hm.octaves
                 /\ hm'.frequency = hm.frequency
                 /\ hm'.lacunarity = hm.lacunarity
                 /\ hm'.persistence = hm.persistence
       /\ call'.op = "perlin_set_seed" =>
            LET i == call'.inst
            IN  IF call'.arg = Perlin_seed(perlins[i])
                THEN perlins'[i] = perlins[i]
                ELSE /\ Perlin_seed(perlins'[i]) = call'.arg
                     /\ perlins'[i].perm_table = PermutationTable_new(call'.arg)]_vars

\* a Perlin was reseeded away from the default while the HybridMulti holds a
\* non-default seed and a non-default octave count
C4_Witness ==
    /\ call.op = "perlin_set_seed"
    /\ call.arg # Perlin_DEFAULT_SEED
    /\ Perlin_seed(perlins[call.inst]) = call.arg
    /\ HybridMulti_seed(hm) # HybridMulti_DEFAULT_SEED
    /\ hm.octaves # HybridMulti_DEFAULT_OCTAVES

\* C5: set_frequency, set_lacunarity and set_persistence each replace only
\* their own field: seed, octaves, sources and the other two scalars of the
\* returned instance are those of the instance called on.
C5_ScalarSettersFrame ==
    [][/\ call'.op = "set_frequency" =>
            hm' = [hm EXCEPT !.frequency = call'.arg]
       /\ call'.op = "set_lacunarity" =>
            hm' = [hm EXCEPT !.lacunarity = call'.arg]
       /\ call'.op = "set_persistence" =>
            hm' = [hm EXCEPT !.persistence = call'.arg]
       /\ call'.op \in {"set_frequency", "set_lacunarity", "set_persistence"} =>
            /\ hm'.seed = hm.seed
            /\ hm'.octaves = hm.octaves
            /\ hm'.sources = hm.sources]_vars

\* set_lacunarity stored a non-default value on an instance whose other
\* fields are not the defaults either
C5_Witness ==
    /\ call.op = "set_lacunarity"
    /\ hm.lacunarity = call.arg
    /\ hm.lacunarity # HybridMulti_DEFAULT_LACUNARITY
    /\ hm.frequency # HybridMulti_DEFAULT_FREQUENCY
    /\ hm.persistence # HybridMulti_DEFAULT_PERSISTENCE
    /\ hm.seed # HybridMulti_DEFAULT_SEED
    /\ hm.octaves # HybridMulti_DEFAULT_OCTAVES

\* what source 0 returns at the point scaled by frequency
FirstOctave == Perlin_get(Index(hm.sources, 0), mulN(call.point, hm.frequency))

\* C6 as stated: with octaves = 1, get(p) returns exactly
\* persistence * sources[0].get(p * frequency), in 2, 3 and 4 dimensions.
C6_Original ==
    (IsGet /\ hm.octaves = 1 /\ ~call.ret.panicked) =>
        call.ret.value = Mul(FirstOctave, hm.persistence)

\* C6 amended: with octaves = 1, get(p) returns
\* 3.0 * (persistence * sources[0].get(p * frequency)), in 2, 3 and 4
\* dimensions: the final rescaling by 3.0 applies to a single octave too.
C6_SingleOctave ==
    (IsGet /\ hm.octaves = 1 /\ ~call.ret.panicked) =>
        call.ret.value = Mul(Mul(FirstOctave, hm.persistence), 3 * One)

\* a single-octave instance with a persistence other than 1 returned a
\* value other than 0
C6_Witness ==
    /\ IsGet
    /\ hm.octaves = 1
    /\ hm.persistence # One
    /\ call.ret.value # 0

\* C7: evaluation is determined by the seed and the point: two Perlin
\* instances built by their own sequences of set_seed calls that end at the
\* same seed return the same value at every point, and a get returns what
\* the first get at that point returned under that seed, whatever calls
\* came between.
C7_Deterministic ==
    /\ \A i, j \in Instances :
          (i < j /\ Perlin_seed(perlins[i]) = Perlin_seed(perlins[j])) =>
              \A p \in PerlinPoints : Perlin_get(perlins[i], p) = Perlin_get(perlins[j], p)
    /\ (call.op = "perlin_get" /\ seen[call.point].seed = Perlin_seed(perlins[call.inst])) =>
          call.ret.value = seen[call.point].value

\* the second instance, reseeded, returned a value other than 0 at a point
\* first evaluated under the same seed, and the first instance was reseeded
\* to that seed too
C7_Witness ==
    /\ call.op = "perlin_get"
    /\ call.inst = 2
    /\ Perlin_seed(perlins[2]) # Perlin_DEFAULT_SEED
    /\ Perlin_seed(perlins[1]) = Perlin_seed(perlins[2])
    /\ seen[call.point].seed = Perlin_seed(perlins[2])
    /\ call.ret.value # 0
    /\ \E p \in PerlinPoints : p # call.point /\ seen[p] # None

IsLattice(point) == \A i \in DOMAIN point : point[i] % Scale = 0

\* values the dot products of the other corners may take
CornerValues == {-2 * One, One}

\* C8: at a point whose coordinates are all integers the 2-D and 3-D Perlin
\* get returns the near corner's gradient dot product with the zero offset
\* (the blend weights are 0, the result is k0 = a), whatever the dot
\* products of the other 3 or 7 corners are.
C8_LatticeExact ==
    (call.op = "perlin_get" /\ Len(call.point) \in {2, 3} /\ IsLattice(call.point)) =>
        LET self == perlins[call.inst]
            cell == Cell(call.point)
            u == s_curve5(cell.near_distance[1])
            v == s_curve5(cell.near_distance[2])
        IN  /\ \A i \in DOMAIN call.point : cell.near_distance[i] = 0
            /\ u = 0 /\ v = 0
            /\ IF Len(call.point) = 2
               THEN LET a == gradient_dot_v2(get2(self.perm_table, cell.near_corner),
                                             cell.near_distance)
                    IN  /\ call.ret.value = a
                        /\ \A b, c, d \in CornerValues :
                              Perlin_blend2(a, b, c, d, u, v) = call.ret.value
               ELSE LET a == gradient_dot_v3(get3(self.perm_table, cell.near_corner),
                                             cell.near_distance)
                        w == s_curve5(cell.near_distance[3])
                    IN  /\ w = 0
                        /\ call.ret.value = a
                        /\ \A b, c, d, e, f, g, h \in CornerValues :
                              Perlin_blend3(a, b, c, d, e, f, g, h, u, v, w)
                                  = call.ret.value

\* a reseeded Perlin was evaluated at a lattice point in 3 dimensions after
\* one in 2 dimensions
C8_Witness ==
    /\ call.op = "perlin_get"
    /\ Len(call.point) = 3
    /\ IsLattice(call.point)
    /\ Perlin_seed(perlins[call.inst]) # Perlin_DEFAULT_SEED
    /\ \E p \in PerlinPoints : Len(p) = 2 /\ IsLattice(p) /\ seen[p] # None

\* C9 as stated: in get with octaves >= 2, when the update
\* weight <- weight * signal at an octave leaves weight below 1, the next
\* octave's signal is added into result multiplied by that reduced weight.
C9_ReducedWeightApplied ==
    (IsGet /\ ~call.ret.panicked) =>
        \A k \in 1..Len(call.ret.steps) :
            LET step == call.ret.steps[k]
            IN  (step.x >= 2 /\ step.weight_before < One) =>
                    step.weight = step.weight_before

\* C10: get reads sources at 0 and 1..octaves-1 only, all below
\* sources.len() in every instance the setters reach, so no evaluation
\* indexes out of bounds; a direct write of the public octaves field can
\* break this.
C10_ReadsInBounds ==
    /\ \A i \in SourcesRead(hm) : InBounds(hm.sources, i)
    /\ IsGet => (~call.ret.panicked /\ call.ret.reads = SourcesRead(hm))
    /\ \E n \in OctaveArgs :
          \E i \in SourcesRead(HybridMulti_assign_octaves(hm, n)) : ~InBounds(hm.sources, i)

\* an instance reseeded and set to 3 octaves was evaluated and read
\* sources 0, 1 and 2
C10_Witness ==
    /\ IsGet
    /\ hm.octaves = 3
    /\ hm.seed # HybridMulti_DEFAULT_SEED
    /\ call.ret.reads = {0, 1, 2}

\* C11: in every instance the setters reach, sources is
\* build_sources(seed(), octaves) for the current seed and octaves, so the
\* instance depends only on the last effective seed and clamped octave
\* count; and set_seed(s) then set_octaves(n) yields the same instance as
\* set_octaves(n) then set_seed(s).
C11_SourcesFromSeedAndOctaves ==
    /\ hm.sources = build_sources(HybridMulti_seed(hm), hm.octaves)
    /\ \A s \in Seeds, n \in OctaveArgs :
          /\ HybridMulti_set_octaves(HybridMulti_set_seed(hm, s), n)
                = HybridMulti_set_seed(HybridMulti_set_octaves(hm, n), s)
          /\ HybridMulti_set_octaves(HybridMulti_set_seed(hm, s), n)
                = [hm EXCEPT !.seed = s,
                             !.octaves = Clamped(n),
                             !.sources = build_sources(s, Clamped(n))]

\* set_seed stored a non-default seed after set_octaves had clamped the
\* octave count to the maximum
C11_Witness ==
    /\ call.op = "set_seed"
    /\ HybridMulti_seed(hm) = call.arg
    /\ HybridMulti_seed(hm) # HybridMulti_DEFAULT_SEED
    /\ hm.octaves = HybridMulti_MAX_OCTAVES
    /\ Len(hm.sources) = HybridMulti_MAX_OCTAVES
    /\ Index(hm.sources, 1).seed = HybridMulti_seed(hm) + 1

=============================================================================
